---------------------------- MODULE Spec2Model ----------------------------
(***************************************************************************)
(* Model of leeworker/sqle:                                                *)
(*   - the driver registry (Register, NewDriver, AllRules, AllDrivers)     *)
(*     and the AuditResult accumulator of package driver, and              *)
(*   - Inspector.Advise of package inspector.                              *)
(* Three specifications share the module: Spec (the registry, run by       *)
(* concurrent goroutines), SpecAudit (one AuditResult) and SpecAdvise (one *)
(* Inspector working through one batch).                                   *)
(***************************************************************************)
EXTENDS Naturals, Integers, Sequences, FiniteSets, TLC

VARIABLES
    \* ---- package driver: the registry --------------------------------
    drivers,      \* map[string]handler; NoHandler marks an absent key
    rules,        \* []*model.Rule, the aggregated catalog
    driversMu,    \* sync.RWMutex: [w |-> holder of Lock or 0, r |-> holders of RLock]
    rulesMu,      \* sync.RWMutex, same shape
    pc,           \* pc[g]: the statement goroutine g is about to execute
    args,         \* args[g]: the arguments of the call g is in
    ret,          \* ret[g]: the value g's call is returning
    ctorRet,      \* ctorRet[g]: what the handler called by g's NewDriver returned
    nCalls,       \* calls started so far
    regWrites,    \* regWrites[n]: executions of drivers[n] = h
    regLog,       \* the Register calls that bound their name, in order, while made in sequence
    crashed,      \* the Go runtime threw "concurrent map read and map write"
    \* ---- package driver: AuditResult ---------------------------------
    arResults,    \* rs.results
    arLevel,      \* what the last Level() returned
    arMessage,    \* what the last Message() returned
    arLastAdd,    \* the last Add call: its arguments and the results before it
    \* ---- package inspector: Inspector.Advise -------------------------
    SqlArray,     \* i.SqlArray, each with its Inspect* fields
    Rules,        \* i.Rules
    isDDLStmt,    \* i.isDDLStmt
    isDMLStmt,    \* i.isDMLStmt
    Results,      \* i.Results
    alterTableStmts, \* i.alterTableStmts
    schemaCtx,    \* the nodes updateSchemaCtx has applied, in order
    stmtIdx,      \* position of the range loop over i.SqlArray
    ruleIdx,      \* position of the range loop over i.Rules
    apc,          \* where Advise is
    adviseErr,    \* what Advise returned
    trace         \* the rule checks run and schema-context updates applied

regVars == <<drivers, rules, driversMu, rulesMu, pc, args, ret, ctorRet,
             nCalls, regWrites, regLog, crashed>>
arVars == <<arResults, arLevel, arMessage, arLastAdd>>
advVars == <<SqlArray, Rules, isDDLStmt, isDMLStmt, Results, alterTableStmts,
             schemaCtx, stmtIdx, ruleIdx, apc, adviseErr, trace>>
vars == <<regVars, arVars, advVars>>

-----------------------------------------------------------------------------
(* Strings that the code formats or matches are sequences of characters.   *)

Str_error == <<"e","r","r","o","r">>
Str_warn == <<"w","a","r","n">>
Str_notice == <<"n","o","t","i","c","e">>
Str_normal == <<"n","o","r","m","a","l">>
Str_osc == <<"o","s","c">>
Empty == <<>>

\* model.RuleLevelNormal .. model.RuleLevelError
RuleLevelNormal == Str_normal
RuleLevelNotice == Str_notice
RuleLevelWarn == Str_warn
RuleLevelError == Str_error

\* model.RuleLevelMap; a Go map yields 0 for a key it does not hold
RuleLevelMap(level) ==
    IF level = RuleLevelNotice THEN 1
    ELSE IF level = RuleLevelWarn THEN 2
    ELSE IF level = RuleLevelError THEN 3
    ELSE 0

\* s[from..] as a sequence
Drop(s, n) == SubSeq(s, n + 1, Len(s))

HasPrefix(s, p) == Len(p) <= Len(s) /\ SubSeq(s, 1, Len(p)) = p

\* p occurs in s at some position
Contains(s, p) == \E k \in 0..(Len(s) - Len(p)) : SubSeq(s, k + 1, k + Len(p)) = p

-----------------------------------------------------------------------------
(* package driver: AuditResult                                             *)

\* bounds of SpecAudit
MaxAdds == 2

\* no value returned yet
Unset == <<"unset">>

\* the levels, messages and format arguments Add is called with
AddLevels == {Empty, RuleLevelNormal, RuleLevelNotice, RuleLevelWarn, RuleLevelError}
AddMessages ==
    { Empty,
      <<"x">>,
      <<"[">> \o Str_error \o <<"]", "x">>,
      <<"[">> \o Str_error \o <<"x">>,
      <<"[">> \o Str_warn \o <<"]", "x">>,
      <<"x">> \o Str_warn,
      <<"x", "[">> \o Str_notice \o <<"]">>,
      <<"[">> \o Str_osc \o <<"]", "x">>,
      <<"[">> \o Str_osc,
      <<"[", "W", "a", "r", "n", "]", "x">>,
      <<"t", "%", "s">> }
\* a message with the arguments it is formatted with
AddFormats ==
    {<<m, <<>> >> : m \in AddMessages}
    \cup { << <<"t", "%", "s">>, << <<"t", "1">> >> >>, << <<"x">>, << <<"t", "1">> >> >> }

RECURSIVE JoinWith(_, _)
\* strings.Join(parts, sep)
JoinWith(parts, sep) ==
    IF parts = <<>> THEN <<>>
    ELSE IF Len(parts) = 1 THEN parts[1]
    ELSE parts[1] \o sep \o JoinWith(Tail(parts), sep)

RECURSIVE ExtraArgs(_)
\* fmt: the arguments no verb consumed, as "string=<arg>, string=<arg>"
ExtraArgs(as) ==
    IF as = <<>> THEN <<>>
    ELSE <<"s","t","r","i","n","g","=">> \o as[1]
         \o (IF Len(as) > 1 THEN <<",", " ">> ELSE <<>>) \o ExtraArgs(Tail(as))

RECURSIVE SprintfFrom(_, _)
\* fmt.Sprintf over the verbs %s and %% with string arguments
SprintfFrom(format, as) ==
    IF format = <<>> THEN
        IF as = <<>> THEN <<>>
        ELSE <<"%","!","(","E","X","T","R","A"," ">> \o ExtraArgs(as) \o <<")">>
    ELSE IF format[1] /= "%" THEN <<format[1]>> \o SprintfFrom(Tail(format), as)
    ELSE IF Len(format) = 1 THEN
        <<"%","!","(","N","O","V","E","R","B",")">> \o SprintfFrom(<<>>, as)
    ELSE IF format[2] = "%" THEN <<"%">> \o SprintfFrom(Drop(format, 2), as)
    ELSE IF as = <<>> THEN
        <<"%", "!", format[2]>> \o <<"(","M","I","S","S","I","N","G",")">>
        \o SprintfFrom(Drop(format, 2), as)
    ELSE as[1] \o SprintfFrom(Drop(format, 2), Tail(as))

Sprintf(format, as) == SprintfFrom(format, as)

RECURSIVE LevelLoop(_, _)
\* the loop of Level(): level is the running maximum
LevelLoop(results, level) ==
    IF results = <<>> THEN level
    ELSE LevelLoop(Tail(results),
                   IF RuleLevelMap(level) < RuleLevelMap(results[1].level)
                   THEN results[1].level ELSE level)

\* Level taking the level of the last finding, with no comparison
LevelOfLast(results) ==
    IF results = <<>> THEN RuleLevelNormal ELSE results[Len(results)].level

\* AuditResult.Level
Level(results) == LevelLoop(results, RuleLevelNormal)

\* MatchString with the first alternative, ^\[error, left out of the pattern
MatchStringNoError(message) ==
    \/ Contains(message, RuleLevelWarn)
    \/ Contains(message, RuleLevelNotice)
    \/ Contains(message, RuleLevelNormal)
    \/ Contains(message, Str_osc \o <<"]">>)

\* regexp.MatchString(`^\[error|warn|notice|normal|osc\]`, message): the
\* alternation binds weaker than ^, \[ and \], so the pattern is the union of
\* ^\[error , warn , notice , normal , osc\]
MatchString(message) ==
    \/ HasPrefix(message, <<"[">> \o RuleLevelError)
    \/ Contains(message, RuleLevelWarn)
    \/ Contains(message, RuleLevelNotice)
    \/ Contains(message, RuleLevelNormal)
    \/ Contains(message, Str_osc \o <<"]">>)

\* one iteration of the loop of Message()
MessageLine(result) ==
    IF MatchString(result.message) THEN result.message
    ELSE <<"[">> \o result.level \o <<"]">> \o result.message

\* AuditResult.Message
Message(results) ==
    JoinWith([n \in 1..Len(results) |-> MessageLine(results[n])], <<"\n">>)

\* Add putting the finding in front of the others
AddInFront(results, level, message, as) ==
    IF level = Empty \/ message = Empty THEN results
    ELSE <<[level |-> level, message |-> Sprintf(message, as)]>> \o results

\* AuditResult.Add
Add(results, level, message, as) ==
    IF level = Empty \/ message = Empty THEN results
    ELSE Append(results, [level |-> level, message |-> Sprintf(message, as)])

\* NewInspectResults
NewInspectResults == <<>>

-----------------------------------------------------------------------------
(* package driver: the registry                                            *)

\* bounds of Spec
NumProcs == 2
MaxCalls == 3

Procs == 1..NumProcs
Names == {"mysql", "pg"}
\* the plugins that register: a handler with the rules it brings
Plugins == { [h |-> "h1", rs |-> <<"r1">>], [h |-> "h2", rs |-> <<"r2", "r1">>] }
NoHandler == "nil"
NoCall == [kind |-> "none"]

Idle == "idle"

\* the error value &ErrDriverNotSupported{driverTyp}, with the text of Error()
ErrDriverNotSupported(driverTyp) ==
    [kind |-> "error", dynType |-> "*driver.ErrDriverNotSupported",
     text |-> <<"driver type ", driverTyp, " is not supported">>]

\* the error NewDriver builds with fmt.Errorf for an unknown driver type: no
\* operand is wrapped, so the value is the *errors.errorString of errors.New
NotSupported(dbType) ==
    [kind |-> "error", dynType |-> "*errors.errorString",
     text |-> <<"driver type ", dbType, " is not supported">>]

\* what a handler can return: a Driver or its own error
HandlerResults(h) == { [kind |-> "driver", by |-> h], [kind |-> "error", by |-> h] }

\* sync.RWMutex
Unlocked == [w |-> 0, r |-> {}]
CanLock(mu) == mu.w = 0 /\ mu.r = {}
CanRLock(mu) == mu.w = 0
Lock(mu, g) == [mu EXCEPT !.w = g]
Unlock(mu, g) == [mu EXCEPT !.w = 0]
RLock(mu, g) == [mu EXCEPT !.r = @ \cup {g}]
RUnlock(mu, g) == [mu EXCEPT !.r = @ \ {g}]

\* g is at a statement that reads the map drivers
ReadsDrivers(g) == pc[g] \in {"reg_check", "nd_lookup", "ad_iter"}
\* g is at the statement that writes the map drivers
WritesDrivers(g) == pc[g] = "reg_write"
\* g is at a statement that reads / writes the slice rules
ReadsRules(g) == pc[g] = "ar_read"
WritesRules(g) == pc[g] = "reg_append"

\* g is inside Register
InRegister(g) ==
    pc[g] \in {"reg_check", "reg_lockD", "reg_write", "reg_unlockD", "reg_lockR",
               "reg_append", "reg_unlockR"}

\* the log once two Register calls have overlapped
Overlapped == <<[name |-> "", rs |-> <<>>, alone |-> FALSE]>>

\* the log after g's Register binds its name: the call is logged if it and all
\* the calls before it were made with no other Register call in progress
LogRegister(log, g) ==
    IF log /= Overlapped /\ \A h \in Procs \ {g} : ~InRegister(h)
    THEN Append(log, [name |-> args[g].name, rs |-> args[g].rs, alone |-> TRUE])
    ELSE Overlapped

\* a read of drivers by g is unsynchronised with a write in progress
RacesOnDrivers(g) == \E h \in Procs \ {g} : WritesDrivers(h)

\* the keys of drivers
Registered == {n \in Names : drivers[n] /= NoHandler}

\* ExistOutcomes looking the name up among the names bound to the handler passed
ExistOutcomesByHandler(g, name) ==
    IF RacesOnDrivers(g) THEN {"true", "false", "throw"}
    ELSE {IF name \in Registered /\ drivers[name] = args[g].h THEN "true" ELSE "false"}

\* `_, exist := drivers[name]` as g executes it: the value the map holds, or,
\* when the read races with a write, whatever the runtime yields, a throw included
ExistOutcomes(g, name) ==
    IF RacesOnDrivers(g) THEN {"true", "false", "throw"}
    ELSE {IF name \in Registered THEN "true" ELSE "false"}

\* the key sets `for n := range drivers` can visit as g executes it
RangeOutcomes(g) ==
    IF RacesOnDrivers(g)
    THEN {Registered \cup extra : extra \in SUBSET {args[h].name : h \in {k \in Procs \ {g} : WritesDrivers(k)}}}
    ELSE {Registered}

\* the orders in which a range over a map can visit the keys ks
Orders(ks) == {s \in [1..Cardinality(ks) -> ks] : \A a, b \in 1..Cardinality(ks) : a /= b => s[a] /= s[b]}

NoArgs == [name |-> "", h |-> NoHandler, rs |-> <<>>]

RegInit ==
    /\ drivers = [n \in Names |-> NoHandler]
    /\ rules = <<>>
    /\ driversMu = Unlocked
    /\ rulesMu = Unlocked
    /\ pc = [g \in Procs |-> Idle]
    /\ args = [g \in Procs |-> NoArgs]
    /\ ret = [g \in Procs |-> NoCall]
    /\ ctorRet = [g \in Procs |-> NoCall]
    /\ nCalls = 0
    /\ regWrites = [n \in Names |-> 0]
    /\ regLog = <<>>
    /\ crashed = FALSE

\* a goroutine calls one of the four functions
Enter(g, to, a) ==
    /\ ~crashed
    /\ pc[g] = Idle
    /\ nCalls < MaxCalls
    /\ nCalls' = nCalls + 1
    /\ pc' = [pc EXCEPT ![g] = to]
    /\ args' = [args EXCEPT ![g] = a]
    /\ UNCHANGED <<drivers, rules, driversMu, rulesMu, ret, ctorRet, regWrites, regLog, crashed>>

CallRegister(g) ==
    \E n \in Names, p \in Plugins :
        Enter(g, "reg_check", [name |-> n, h |-> p.h, rs |-> p.rs])

CallNewDriver(g) ==
    \E n \in Names : Enter(g, "nd_rlock", [NoArgs EXCEPT !.name = n])

CallAllRules(g) == Enter(g, "ar_rlock", NoArgs)

CallAllDrivers(g) == Enter(g, "ad_rlock", NoArgs)

\* g moves from one statement to the next; nothing else of g changes
Goto(g, from, to) ==
    /\ ~crashed
    /\ pc[g] = from
    /\ pc' = [pc EXCEPT ![g] = to]

\* g returns to its caller, which keeps nothing of the call
Return(g, from) ==
    /\ Goto(g, from, Idle)
    /\ args' = [args EXCEPT ![g] = NoArgs]
    /\ ret' = [ret EXCEPT ![g] = NoCall]
    /\ ctorRet' = [ctorRet EXCEPT ![g] = NoCall]

\* Register, lines 34-37: the existence check, and the panic
RegisterCheck(g) ==
    /\ ~crashed
    /\ pc[g] = "reg_check"
    /\ \E exist \in ExistOutcomes(g, args[g].name) :
        /\ pc' = [pc EXCEPT ![g] =
                    IF exist = "true" THEN "panicked"
                    ELSE IF exist = "false" THEN "reg_lockD" ELSE @]
        /\ crashed' = (exist = "throw")
        /\ UNCHANGED <<drivers, rules, driversMu, rulesMu, args, ret, ctorRet,
                       nCalls, regWrites, regLog>>

\* Register, line 39
RegisterLockDrivers(g) ==
    /\ Goto(g, "reg_lockD", "reg_write")
    /\ CanLock(driversMu)
    /\ driversMu' = Lock(driversMu, g)
    /\ UNCHANGED <<drivers, rules, rulesMu, args, ret, ctorRet, nCalls, regWrites, regLog, crashed>>

\* Register, line 40
RegisterWrite(g) ==
    /\ Goto(g, "reg_write", "reg_unlockD")
    /\ drivers' = [drivers EXCEPT ![args[g].name] = args[g].h]
    /\ regWrites' = [regWrites EXCEPT ![args[g].name] = @ + 1]
    /\ regLog' = LogRegister(regLog, g)
    /\ UNCHANGED <<rules, driversMu, rulesMu, args, ret, ctorRet, nCalls, crashed>>

\* Register, line 41
RegisterUnlockDrivers(g) ==
    /\ Goto(g, "reg_unlockD", "reg_lockR")
    /\ driversMu' = Unlock(driversMu, g)
    /\ UNCHANGED <<drivers, rules, rulesMu, args, ret, ctorRet, nCalls, regWrites, regLog, crashed>>

\* Register, line 43
RegisterLockRules(g) ==
    /\ Goto(g, "reg_lockR", "reg_append")
    /\ CanLock(rulesMu)
    /\ rulesMu' = Lock(rulesMu, g)
    /\ UNCHANGED <<drivers, rules, driversMu, args, ret, ctorRet, nCalls, regWrites, regLog, crashed>>

\* RegisterAppend leaving out the rules whose name the catalog holds already
RegisterAppendDedup(g) ==
    /\ Goto(g, "reg_append", "reg_unlockR")
    /\ rules' = rules \o SelectSeq(args[g].rs, LAMBDA r : \A n \in 1..Len(rules) : rules[n] /= r)
    /\ UNCHANGED <<drivers, driversMu, rulesMu, args, ret, ctorRet, nCalls, regWrites, regLog, crashed>>

\* Register, line 44
RegisterAppend(g) ==
    /\ Goto(g, "reg_append", "reg_unlockR")
    /\ rules' = rules \o args[g].rs
    /\ UNCHANGED <<drivers, driversMu, rulesMu, args, ret, ctorRet, nCalls, regWrites, regLog, crashed>>

\* Register, lines 45-46
RegisterUnlockRules(g) ==
    /\ Return(g, "reg_unlockR")
    /\ rulesMu' = Unlock(rulesMu, g)
    /\ UNCHANGED <<drivers, rules, driversMu, nCalls, regWrites, regLog, crashed>>

\* NewDriver, line 58
NewDriverRLock(g) ==
    /\ Goto(g, "nd_rlock", "nd_lookup")
    /\ CanRLock(driversMu)
    /\ driversMu' = RLock(driversMu, g)
    /\ UNCHANGED <<drivers, rules, rulesMu, args, ret, ctorRet, nCalls, regWrites, regLog, crashed>>

\* NewDriverResult with the test of exist inverted
NewDriverResultInverted(exist, dbType, res) ==
    IF exist = "true" THEN NotSupported(dbType) ELSE res

\* NewDriver, lines 61-66: what it returns for the outcome of the lookup and
\* the result res of the handler (used only when the key exists)
NewDriverResult(exist, dbType, res) ==
    IF exist = "false" THEN NotSupported(dbType) ELSE res

\* NewDriver, lines 61-66: the lookup, and the call of the handler
NewDriverLookup(g) ==
    /\ ~crashed
    /\ pc[g] = "nd_lookup"
    /\ \E exist \in ExistOutcomes(g, args[g].name) :
       \E res \in IF exist = "true" THEN HandlerResults(drivers[args[g].name]) ELSE {NoCall} :
        /\ pc' = [pc EXCEPT ![g] = IF exist = "throw" THEN @ ELSE "nd_runlock"]
        /\ crashed' = (exist = "throw")
        /\ ctorRet' = [ctorRet EXCEPT ![g] = IF exist = "true" THEN res ELSE @]
        /\ ret' = [ret EXCEPT ![g] =
                     IF exist = "throw" THEN @
                     ELSE NewDriverResult(exist, args[g].name, res)]
        /\ UNCHANGED <<drivers, rules, driversMu, rulesMu, args, nCalls, regWrites, regLog>>

\* NewDriver, line 59 (deferred)
NewDriverRUnlock(g) ==
    /\ Return(g, "nd_runlock")
    /\ driversMu' = RUnlock(driversMu, g)
    /\ UNCHANGED <<drivers, rules, rulesMu, nCalls, regWrites, regLog, crashed>>

\* AllRules, line 70
AllRulesRLock(g) ==
    /\ Goto(g, "ar_rlock", "ar_read")
    /\ CanRLock(rulesMu)
    /\ rulesMu' = RLock(rulesMu, g)
    /\ UNCHANGED <<drivers, rules, driversMu, args, ret, ctorRet, nCalls, regWrites, regLog, crashed>>

\* AllRules, line 72
AllRulesRead(g) ==
    /\ Goto(g, "ar_read", "ar_runlock")
    /\ ret' = [ret EXCEPT ![g] = [kind |-> "rules", list |-> rules]]
    /\ UNCHANGED <<drivers, rules, driversMu, rulesMu, args, ctorRet, nCalls, regWrites, regLog, crashed>>

\* AllRules, line 71 (deferred)
AllRulesRUnlock(g) ==
    /\ Return(g, "ar_runlock")
    /\ rulesMu' = RUnlock(rulesMu, g)
    /\ UNCHANGED <<drivers, rules, driversMu, nCalls, regWrites, regLog, crashed>>

\* AllDrivers, line 76: the lock taken is rulesMu
AllDriversRLock(g) ==
    /\ Goto(g, "ad_rlock", "ad_iter")
    /\ CanRLock(rulesMu)
    /\ rulesMu' = RLock(rulesMu, g)
    /\ UNCHANGED <<drivers, rules, driversMu, args, ret, ctorRet, nCalls, regWrites, regLog, crashed>>

\* AllDrivers, lines 79-83: the range over the map
AllDriversIter(g) ==
    /\ ~crashed
    /\ pc[g] = "ad_iter"
    /\ \E ks \in RangeOutcomes(g) : \E order \in Orders(ks) : \E throw \in {FALSE, RacesOnDrivers(g)} :
        /\ pc' = [pc EXCEPT ![g] = IF throw THEN @ ELSE "ad_runlock"]
        /\ crashed' = throw
        /\ ret' = [ret EXCEPT ![g] = IF throw THEN @ ELSE [kind |-> "names", list |-> order]]
        /\ UNCHANGED <<drivers, rules, driversMu, rulesMu, args, ctorRet, nCalls, regWrites, regLog>>

\* AllDrivers, line 77 (deferred)
AllDriversRUnlock(g) ==
    /\ Return(g, "ad_runlock")
    /\ rulesMu' = RUnlock(rulesMu, g)
    /\ UNCHANGED <<drivers, rules, driversMu, nCalls, regWrites, regLog, crashed>>


-----------------------------------------------------------------------------
(* SpecAudit: one AuditResult, Add / Level / Message called in any order   *)

NoAdd == [n |-> 0, level |-> Empty, message |-> Empty, before |-> <<>>]

ArInit ==
    /\ arResults = NewInspectResults
    /\ arLevel = Unset
    /\ arMessage = Unset
    /\ arLastAdd = NoAdd

\* rs.Add(level, message, args...)
CallAdd ==
    \E level \in AddLevels, f \in AddFormats :
        /\ arLastAdd.n < MaxAdds
        /\ arResults' = Add(arResults, level, f[1], f[2])
        /\ arLastAdd' = [n |-> arLastAdd.n + 1, level |-> level, message |-> f[1],
                         before |-> arResults]
        /\ arLevel' = Unset
        /\ arMessage' = Unset

\* rs.Level()
CallLevel ==
    /\ arLevel = Unset
    /\ arLevel' = Level(arResults)
    /\ UNCHANGED <<arResults, arMessage, arLastAdd>>

\* rs.Message()
CallMessage ==
    /\ arMessage = Unset
    /\ arMessage' = Message(arResults)
    /\ UNCHANGED <<arResults, arLevel, arLastAdd>>

-----------------------------------------------------------------------------
(* package inspector: Inspector.Advise                                     *)

\* bounds of SpecAdvise
MaxStmts == 3
MaxRules == 2

Nil == [kind |-> "nil"]
Tables == {"t1", "t2"}

\* the statements a batch is made of: what parseOneSql yields for the text
Stmts ==
    { [typ |-> "CreateTable", table |-> "t1"],
      [typ |-> "AlterTable", table |-> "t1"],
      [typ |-> "DropTable", table |-> "t1"],
      [typ |-> "Select", table |-> "t1"],
      [typ |-> "Use", table |-> ""],
      [typ |-> "Invalid", table |-> ""] }

\* node.(type) is an ast.DDLNode / an ast.DMLNode
IsDDLNode(node) ==
    node.typ \in {"CreateTable", "AlterTable", "DropTable", "DropDatabase", "CreateDatabase", "CreateIndex"}
IsDMLNode(node) == node.typ \in {"Select", "Insert", "Update", "Delete"}

\* parseOneSql: the node, or an error for text that does not parse
ParseFails(sql) == sql.typ = "Invalid"
ParseError(sql) == [kind |-> "parse", sql |-> sql]

SQL_STMT_CONFLICT_ERROR == [kind |-> "conflict"]
TASK_ACTION_DONE == "done"

\* the errors a lookup on the live engine can end with
LookupErrors == { [kind |-> "lookup", text |-> "timeout"],
                  [kind |-> "lookup", text |-> "refused"] }

\* the rules a session can select, each with its level
RulePool ==
    { [Name |-> "ddl_check_object_exist", Level |-> RuleLevelError],
      [Name |-> "ddl_disable_drop_statement", Level |-> RuleLevelWarn],
      [Name |-> "ddl_check_alter_table_need_merge", Level |-> RuleLevelNotice],
      [Name |-> "rule_without_func", Level |-> RuleLevelError],
      [Name |-> "rule_with_nil_func", Level |-> RuleLevelError] }

\* i.RulesFunc as initRulesFunc fills it: the check function of a rule name,
\* "nil" for a nil function, "absent" for a name the map does not hold
RulesFunc(name) ==
    CASE name = "ddl_check_object_exist" -> "checkObjectExist"
      [] name = "ddl_disable_drop_statement" -> "disableDropStmt"
      [] name = "ddl_check_alter_table_need_merge" -> "checkMergeAlterTable"
      [] name = "ddl_check_primary_key" -> "checkPrimaryKey"
      [] name = "ddl_check_object_name" -> "checkNewObjectName"
      [] name = "rule_with_nil_func" -> "nil"
      [] OTHER -> "absent"

\* the message template of a finding
RuleMessage(code) ==
    CASE code = "TABLE_EXIST" -> <<"t", "b", "l", " ", "%", "s">>
      [] code = "SCHEMA_EXIST" -> <<"d", "b", " ", "%", "s">>
      [] code = "DDL_DISABLE_DROP_STATEMENT" -> <<"d", "r", "o", "p">>
      [] code = "DDL_CHECK_ALTER_TABLE_NEED_MERGE" -> <<"m", "e", "r", "g", "e">>
      [] code = "DDL_CHECK_PRIMARY_KEY_EXIST" -> <<"n", "o", "p", "k">>
      [] code = "DDL_CHECK_PRIMARY_KEY_TYPE" -> <<"p", "k", "t", "y", "p", "e">>
      [] code = "DDL_CHECK_OBJECT_NAME_LENGTH" -> <<"l", "e", "n">>
      [] code = "DDL_DISABLE_USING_KEYWORD" -> <<"k", "w", " ", "%", "s">>
      [] OTHER -> <<"m", "s", "g">>

\* a table name as characters
NameChars(t) == IF t = "t1" THEN <<"t", "1">> ELSE IF t = "t2" THEN <<"t", "2">> ELSE <<"d">>

\* i.addResult(code, args...): a finding of the current rule's level
addResult(results, rule, code, as) == Add(results, rule.Level, RuleMessage(code), as)

\* what a check function leaves behind: its error, i.Results, i.alterTableStmts
Outcome(err, results, alters) == [err |-> err, results |-> results, alters |-> alters]

\* disableDropStmt without the case of *ast.DropDatabaseStmt
disableDropStmtTableOnly(node, rule, results, alters) ==
    { Outcome(Nil,
              IF node.typ = "DropTable"
              THEN addResult(results, rule, "DDL_DISABLE_DROP_STATEMENT", <<>>)
              ELSE results,
              alters) }

\* Inspector.disableDropStmt
disableDropStmt(node, rule, results, alters) ==
    { Outcome(Nil,
              IF node.typ \in {"DropDatabase", "DropTable"}
              THEN addResult(results, rule, "DDL_DISABLE_DROP_STATEMENT", <<>>)
              ELSE results,
              alters) }

\* checkMergeAlterTable looking for an earlier ALTER TABLE on any table
checkMergeAlterTableAnyTable(node, k, rule, results, alters) ==
    IF node.typ = "AlterTable"
    THEN IF \E t \in Tables : alters[t] /= <<>>
         THEN { Outcome(Nil, addResult(results, rule, "DDL_CHECK_ALTER_TABLE_NEED_MERGE", <<>>),
                        [alters EXCEPT ![node.table] = Append(@, k)]) }
         ELSE { Outcome(Nil, results, [alters EXCEPT ![node.table] = <<k>>]) }
    ELSE { Outcome(Nil, results, alters) }

\* Inspector.checkMergeAlterTable
checkMergeAlterTable(node, k, rule, results, alters) ==
    IF node.typ = "AlterTable"
    THEN IF alters[node.table] /= <<>>
         THEN { Outcome(Nil, addResult(results, rule, "DDL_CHECK_ALTER_TABLE_NEED_MERGE", <<>>),
                        [alters EXCEPT ![node.table] = Append(@, k)]) }
         ELSE { Outcome(Nil, results, [alters EXCEPT ![node.table] = <<k>>]) }
    ELSE { Outcome(Nil, results, alters) }

\* i.isSchemaExist / i.isTableExist: an error of the lookup, or the answer
Exists == [kind |-> "answer", text |-> "exists"]
Missing == [kind |-> "answer", text |-> "missing"]
ExistLookups == LookupErrors \cup {Exists, Missing}

\* Inspector.checkObjectExist
checkObjectExist(node, rule, results, alters) ==
    IF node.typ = "CreateTable" THEN
        { Outcome(IF schemaExist \in LookupErrors THEN schemaExist
                  ELSE IF schemaExist = Exists /\ tableExist \in LookupErrors THEN tableExist
                  ELSE Nil,
                  IF schemaExist = Exists /\ tableExist = Exists
                  THEN addResult(results, rule, "TABLE_EXIST", <<NameChars(node.table)>>)
                  ELSE results,
                  alters) : schemaExist \in ExistLookups, tableExist \in ExistLookups }
    ELSE IF node.typ = "CreateDatabase" THEN
        { Outcome(IF schemaExist \in LookupErrors THEN schemaExist ELSE Nil,
                  IF schemaExist = Exists
                  THEN addResult(results, rule, "SCHEMA_EXIST", <<NameChars(node.table)>>)
                  ELSE results,
                  alters) : schemaExist \in ExistLookups }
    ELSE { Outcome(Nil, results, alters) }

\* the parts of a parsed statement the check functions read
Col(name, tp, unsigned, options) ==
    [name |-> name, tp |-> tp, unsigned |-> unsigned, options |-> options]
Constraint(tp, name, keys) == [tp |-> tp, name |-> name, keys |-> keys]
AlterSpec(tp, newTable, newColumns, constraintName, toKey) ==
    [tp |-> tp, newTable |-> newTable, newColumns |-> newColumns,
     constraintName |-> constraintName, toKey |-> toKey]
Node(typ, table, cols, constraints, specs, indexName) ==
    [typ |-> typ, table |-> table, cols |-> cols, constraints |-> constraints,
     specs |-> specs, indexName |-> indexName]

\* IsAllInOptions(options, opts...): every one of opts is among the options
IsAllInOptions(options, opts) == opts \subseteq options

\* IsAutoIncrementBigIntUnsigned taking INT for BIGINT as well
IsAutoIncrementIntUnsigned(col) ==
    /\ col.tp \in {"TypeLong", "TypeLonglong"}
    /\ col.unsigned
    /\ IsAllInOptions(col.options, {"AutoIncrement"})

\* lines 101-104, 121-124: the column is BIGINT UNSIGNED AUTO_INCREMENT
IsAutoIncrementBigIntUnsigned(col) ==
    /\ col.tp = "TypeLonglong"
    /\ col.unsigned
    /\ IsAllInOptions(col.options, {"AutoIncrement"})

\* line 138 without the test of hasPk
PkTypeWrongWhateverHasPk(hasPk, pkIsAutoIncrementBigIntUnsigned) ==
    ~pkIsAutoIncrementBigIntUnsigned

\* line 138: the condition of the DDL_CHECK_PRIMARY_KEY_TYPE finding
PkTypeWrong(hasPk, pkIsAutoIncrementBigIntUnsigned) ==
    hasPk /\ ~pkIsAutoIncrementBigIntUnsigned

\* Inspector.checkPrimaryKey
checkPrimaryKey(node, rule, results, alters) ==
    IF node.typ /= "CreateTable" THEN { Outcome(Nil, results, alters) }
    ELSE
    LET cols == node.cols
        pkCols == {c \in 1..Len(cols) : IsAllInOptions(cols[c].options, {"PrimaryKey"})}
        pkConstraints == {n \in 1..Len(node.constraints) :
                             node.constraints[n].tp = "ConstraintPrimaryKey"}
        hasPk == pkCols /= {} \/ pkConstraints /= {}
        pkIsAutoIncrementBigIntUnsigned ==
            \/ \E c \in pkCols : IsAutoIncrementBigIntUnsigned(cols[c])
            \/ \E n \in pkConstraints :
                  /\ Len(node.constraints[n].keys) = 1
                  /\ \E c \in 1..Len(cols) :
                        /\ cols[c].name = node.constraints[n].keys[1]
                        /\ IsAutoIncrementBigIntUnsigned(cols[c])
        r1 == IF ~hasPk
              THEN addResult(results, rule, "DDL_CHECK_PRIMARY_KEY_EXIST", <<>>)
              ELSE results
        r2 == IF PkTypeWrong(hasPk, pkIsAutoIncrementBigIntUnsigned)
              THEN addResult(r1, rule, "DDL_CHECK_PRIMARY_KEY_TYPE", <<>>)
              ELSE r1
    IN  { Outcome(Nil, r2, alters) }

\* the characters of an identifier; "n64" and "n65" stand for names of 64 and
\* 65 characters
IdentChars(id) ==
    CASE id = "n64" -> [n \in 1..64 |-> "a"]
      [] id = "n65" -> [n \in 1..65 |-> "a"]
      [] id = "select" -> <<"s", "e", "l", "e", "c", "t">>
      [] id = "table" -> <<"t", "a", "b", "l", "e">>
      [] id = "id" -> <<"i", "d">>
      [] id = "" -> <<>>
      [] OTHER -> NameChars(id)

\* IsMysqlReservedKeyword(name)
IsMysqlReservedKeyword(name) == name \in {"select", "table"}

RECURSIVE RemoveArrayRepeat(_)
\* RemoveArrayRepeat(names): the names without repetitions, in order of first
\* occurrence
RemoveArrayRepeat(names) ==
    IF names = <<>> THEN <<>>
    ELSE LET init == RemoveArrayRepeat(SubSeq(names, 1, Len(names) - 1))
             last == names[Len(names)]
         IN  IF \E n \in 1..Len(init) : init[n] = last THEN init ELSE Append(init, last)

RECURSIVE SpecNames(_)
\* lines 319-340: the names the specs of an ALTER TABLE introduce
SpecNames(specs) ==
    IF specs = <<>> THEN <<>>
    ELSE LET spec == specs[1]
         IN  (CASE spec.tp = "AlterTableRenameTable" -> <<spec.newTable>>
                [] spec.tp = "AlterTableAddColumns" -> spec.newColumns
                [] spec.tp = "AlterTableChangeColumn" -> spec.newColumns
                [] spec.tp = "AlterTableAddConstraint" -> <<spec.constraintName>>
                [] spec.tp = "AlterTableRenameIndex" -> <<spec.toKey>>
                [] OTHER -> <<>>)
             \o SpecNames(Tail(specs))

\* the constraint is an index: lines 312-315
IsIndexConstraint(constraint) ==
    constraint.tp \in {"ConstraintUniqKey", "ConstraintKey", "ConstraintUniqIndex",
                       "ConstraintIndex"}

\* lines 299-345: the names the statement introduces
NewObjectNames(node) ==
    CASE node.typ = "CreateDatabase" -> <<node.table>>
      [] node.typ = "CreateTable" ->
            <<node.table>>
            \o [c \in 1..Len(node.cols) |-> node.cols[c].name]
            \o LET idx == SelectSeq(node.constraints, IsIndexConstraint)
               IN  [n \in 1..Len(idx) |-> idx[n].name]
      [] node.typ = "AlterTable" -> SpecNames(node.specs)
      [] node.typ = "CreateIndex" -> <<node.indexName>>
      [] OTHER -> <<>>

\* line 350 comparing with >= instead of >
NameTooLongFrom64(name) == Len(IdentChars(name)) >= 64

\* line 350: len(name) > 64
NameTooLong(name) == Len(IdentChars(name)) > 64

\* Inspector.checkNewObjectName
checkNewObjectName(node, rule, results, alters) ==
    IF node.typ \notin {"CreateDatabase", "CreateTable", "AlterTable", "CreateIndex"}
    THEN { Outcome(Nil, results, alters) }
    ELSE
    LET names == NewObjectNames(node)
        r1 == IF \E n \in 1..Len(names) : NameTooLong(names[n])
              THEN addResult(results, rule, "DDL_CHECK_OBJECT_NAME_LENGTH", <<>>)
              ELSE results
        invalidNames == SelectSeq(names, IsMysqlReservedKeyword)
        listed == RemoveArrayRepeat(invalidNames)
        r2 == IF Len(invalidNames) > 0
              THEN addResult(r1, rule, "DDL_DISABLE_USING_KEYWORD",
                             << JoinWith([n \in 1..Len(listed) |-> IdentChars(listed[n])],
                                         <<",", " ">>) >>)
              ELSE r1
    IN  { Outcome(Nil, r2, alters) }

\* fn(node, rule.Name) for the check function fn
RunCheck(fn, node, k, rule, results, alters) ==
    CASE fn = "checkObjectExist" -> checkObjectExist(node, rule, results, alters)
      [] fn = "disableDropStmt" -> disableDropStmt(node, rule, results, alters)
      [] fn = "checkMergeAlterTable" -> checkMergeAlterTable(node, k, rule, results, alters)
      [] fn = "checkPrimaryKey" -> checkPrimaryKey(node, rule, results, alters)
      [] fn = "checkNewObjectName" -> checkNewObjectName(node, rule, results, alters)

\* Classify with each case testing its own flag instead of the other's
ClassifyOwnFlag(node, ddl, dml) ==
    IF IsDDLNode(node) THEN
        IF ddl THEN [err |-> SQL_STMT_CONFLICT_ERROR, ddl |-> ddl, dml |-> dml]
        ELSE [err |-> Nil, ddl |-> TRUE, dml |-> dml]
    ELSE IF IsDMLNode(node) THEN
        IF dml THEN [err |-> SQL_STMT_CONFLICT_ERROR, ddl |-> ddl, dml |-> dml]
        ELSE [err |-> Nil, ddl |-> ddl, dml |-> TRUE]
    ELSE [err |-> Nil, ddl |-> ddl, dml |-> dml]

\* lines 21-32: the statement kind of the batch, after node is classified
Classify(node, ddl, dml) ==
    IF IsDDLNode(node) THEN
        IF dml THEN [err |-> SQL_STMT_CONFLICT_ERROR, ddl |-> ddl, dml |-> dml]
        ELSE [err |-> Nil, ddl |-> TRUE, dml |-> dml]
    ELSE IF IsDMLNode(node) THEN
        IF ddl THEN [err |-> SQL_STMT_CONFLICT_ERROR, ddl |-> ddl, dml |-> dml]
        ELSE [err |-> Nil, ddl |-> ddl, dml |-> TRUE]
    ELSE [err |-> Nil, ddl |-> ddl, dml |-> dml]

\* AfterCheck with the error of the check function dropped
AfterCheckIgnoringErr(err) == "rules"

\* lines 41-43: a check function's error ends Advise
AfterCheck(err) == IF err /= Nil THEN "returned" ELSE "rules"

\* i.updateSchemaCtx(node), for the node of statement k
updateSchemaCtx(ctx, k) == Append(ctx, k)

\* the sequences of at most n distinct elements of S
InjSeqs(S, n) ==
    UNION { {q \in [1..m -> S] : \A a, b \in 1..m : a /= b => q[a] /= q[b]} : m \in 0..n }

Batches == UNION { [1..m -> Stmts] : m \in 0..MaxStmts }

NewSql(sql) ==
    [Sql |-> sql, InspectStatus |-> "", InspectLevel |-> Empty, InspectResult |-> Empty]

\* added: the findings a check function call appended to i.Results
Event(e, k, j, err) == [e |-> e, stmt |-> k, rule |-> j, err |-> err, added |-> <<>>]

\* an Inspector that is given no batch
AdvIdle ==
    /\ SqlArray = <<>>
    /\ Rules = <<>>
    /\ isDDLStmt = FALSE
    /\ isDMLStmt = FALSE
    /\ Results = NewInspectResults
    /\ alterTableStmts = [t \in Tables |-> <<>>]
    /\ schemaCtx = <<>>
    /\ stmtIdx = 1
    /\ ruleIdx = 1
    /\ apc = "loop"
    /\ adviseErr = Nil
    /\ trace = <<>>

\* a new Inspector with its batch and its rules, as Advise is called
AdvInit ==
    /\ SqlArray \in {[k \in DOMAIN b |-> NewSql(b[k])] : b \in Batches}
    /\ Rules \in InjSeqs(RulePool, MaxRules)
    /\ isDDLStmt = FALSE
    /\ isDMLStmt = FALSE
    /\ Results = NewInspectResults
    /\ alterTableStmts = [t \in Tables |-> <<>>]
    /\ schemaCtx = <<>>
    /\ stmtIdx = 1
    /\ ruleIdx = 1
    /\ apc = "loop"
    /\ adviseErr = Nil
    /\ trace = <<>>

\* bounds of SpecChecks
MaxCheckStmts == 2
MaxCheckRules == 3

\* columns: INT(10) UNSIGNED NOT NULL AUTO_INCREMENT PRIMARY KEY; INT;
\* BIGINT UNSIGNED NOT NULL AUTO_INCREMENT, with and without PRIMARY KEY
IdInt10Pk == Col("id", "TypeLong", TRUE, {"NotNull", "AutoIncrement", "PrimaryKey"})
IdInt == Col("id", "TypeLong", FALSE, {})
IdBigAuto == Col("id", "TypeLonglong", TRUE, {"NotNull", "AutoIncrement"})
SelectBigPk == Col("select", "TypeLonglong", TRUE, {"NotNull", "AutoIncrement", "PrimaryKey"})

\* the statements the check functions are run on
CheckStmts ==
    { Node("CreateTable", "t1", <<IdInt10Pk>>, <<>>, <<>>, ""),
      Node("CreateTable", "t2", <<IdInt>>, <<>>, <<>>, ""),
      Node("CreateTable", "t1", <<IdBigAuto>>,
           <<Constraint("ConstraintPrimaryKey", "", <<"id">>)>>, <<>>, ""),
      Node("CreateTable", "select", <<SelectBigPk>>,
           <<Constraint("ConstraintIndex", "n65", <<"select">>)>>, <<>>, ""),
      Node("CreateTable", "n65", <<IdInt>>,
           <<Constraint("ConstraintPrimaryKey", "table", <<"id">>)>>, <<>>, ""),
      Node("AlterTable", "t1", <<>>, <<>>,
           <<AlterSpec("AlterTableAddColumns", "", <<"n65", "select", "select">>, "", ""),
             AlterSpec("AlterTableRenameTable", "table", <<>>, "", ""),
             AlterSpec("AlterTableDropColumn", "", <<>>, "", "")>>, ""),
      Node("CreateIndex", "t1", <<>>, <<>>, <<>>, "n64"),
      Node("CreateDatabase", "table", <<>>, <<>>, <<>>, ""),
      Node("DropTable", "t1", <<>>, <<>>, <<>>, ""),
      Node("DropDatabase", "d1", <<>>, <<>>, <<>>, "") }

\* the rules selected for them
CheckRulePool ==
    { [Name |-> "ddl_check_primary_key", Level |-> RuleLevelError],
      [Name |-> "ddl_check_object_name", Level |-> RuleLevelNotice],
      [Name |-> "ddl_disable_drop_statement", Level |-> RuleLevelWarn],
      [Name |-> "rule_with_nil_func", Level |-> RuleLevelError] }

CheckBatches == UNION { [1..m -> CheckStmts] : m \in 0..MaxCheckStmts }

\* a new Inspector with a batch of these statements, as Advise is called
AdvChecksInit ==
    /\ SqlArray \in {[k \in DOMAIN b |-> NewSql(b[k])] : b \in CheckBatches}
    /\ Rules \in InjSeqs(CheckRulePool, MaxCheckRules)
    /\ isDDLStmt = FALSE
    /\ isDMLStmt = FALSE
    /\ Results = NewInspectResults
    /\ alterTableStmts = [t \in Tables |-> <<>>]
    /\ schemaCtx = <<>>
    /\ stmtIdx = 1
    /\ ruleIdx = 1
    /\ apc = "loop"
    /\ adviseErr = Nil
    /\ trace = <<>>

\* bounds of SpecMerge
MaxMergeStmts == 3
MaxMergeRules == 2

\* the statements of a batch of ALTER TABLEs on two tables, among others
MergeStmts ==
    { [typ |-> "AlterTable", table |-> "t1"],
      [typ |-> "AlterTable", table |-> "t2"],
      [typ |-> "DropTable", table |-> "t1"],
      [typ |-> "Use", table |-> ""] }

\* the rules selected for them
MergeRulePool ==
    { [Name |-> "ddl_check_alter_table_need_merge", Level |-> RuleLevelNotice],
      [Name |-> "ddl_disable_drop_statement", Level |-> RuleLevelWarn],
      [Name |-> "rule_with_nil_func", Level |-> RuleLevelError] }

MergeBatches == UNION { [1..m -> MergeStmts] : m \in 0..MaxMergeStmts }

\* i.Rules as the caller hands it over: a rule can be listed more than once
MergeRuleLists == UNION { [1..m -> MergeRulePool] : m \in 0..MaxMergeRules }

\* a new Inspector with a batch of these statements, as Advise is called
AdvMergeInit ==
    /\ SqlArray \in {[k \in DOMAIN b |-> NewSql(b[k])] : b \in MergeBatches}
    /\ Rules \in MergeRuleLists
    /\ isDDLStmt = FALSE
    /\ isDMLStmt = FALSE
    /\ Results = NewInspectResults
    /\ alterTableStmts = [t \in Tables |-> <<>>]
    /\ schemaCtx = <<>>
    /\ stmtIdx = 1
    /\ ruleIdx = 1
    /\ apc = "loop"
    /\ adviseErr = Nil
    /\ trace = <<>>

\* Advise, lines 13-32: the next statement is parsed and classified
AdviseStatement ==
    /\ apc = "loop"
    /\ stmtIdx <= Len(SqlArray)
    /\ LET sql == SqlArray[stmtIdx].Sql
           c == Classify(sql, isDDLStmt, isDMLStmt)
       IN  IF ParseFails(sql) THEN
               /\ adviseErr' = ParseError(sql)
               /\ apc' = "returned"
               /\ UNCHANGED <<isDDLStmt, isDMLStmt, ruleIdx>>
           ELSE IF c.err /= Nil THEN
               /\ adviseErr' = c.err
               /\ apc' = "returned"
               /\ UNCHANGED <<isDDLStmt, isDMLStmt, ruleIdx>>
           ELSE
               /\ isDDLStmt' = c.ddl
               /\ isDMLStmt' = c.dml
               /\ ruleIdx' = 1
               /\ apc' = "rules"
               /\ UNCHANGED adviseErr
    /\ UNCHANGED <<SqlArray, Rules, Results, alterTableStmts, schemaCtx, stmtIdx, trace>>

\* Advise, lines 34-45: one iteration of the loop over i.Rules
AdviseRule ==
    /\ apc = "rules"
    /\ ruleIdx <= Len(Rules)
    /\ LET rule == Rules[ruleIdx]
           fn == RulesFunc(rule.Name)
       IN  IF fn \in {"absent", "nil"} THEN
               /\ ruleIdx' = ruleIdx + 1
               /\ UNCHANGED <<Results, alterTableStmts, trace, apc, adviseErr>>
           ELSE
               \E out \in RunCheck(fn, SqlArray[stmtIdx].Sql, stmtIdx, rule, Results, alterTableStmts) :
                   /\ Results' = out.results
                   /\ alterTableStmts' = out.alters
                   /\ trace' = Append(trace,
                                [Event("check", stmtIdx, ruleIdx, out.err)
                                    EXCEPT !.added = Drop(out.results, Len(Results))])
                   /\ apc' = AfterCheck(out.err)
                   /\ adviseErr' = out.err
                   /\ ruleIdx' = IF apc' = "rules" THEN ruleIdx + 1 ELSE ruleIdx
    /\ UNCHANGED <<SqlArray, Rules, isDDLStmt, isDMLStmt, schemaCtx, stmtIdx>>

\* AdviseRecord placed inside the loop over i.Rules instead of after it
AdviseRecordInsideLoop ==
    /\ apc = "rules"
    /\ SqlArray' = [SqlArray EXCEPT ![stmtIdx] =
                      [@ EXCEPT !.InspectStatus = TASK_ACTION_DONE,
                                !.InspectLevel = Level(Results),
                                !.InspectResult = Message(Results)]]
    /\ schemaCtx' = updateSchemaCtx(schemaCtx, stmtIdx)
    /\ trace' = Append(trace, Event("ctx", stmtIdx, 0, Nil))
    /\ Results' = NewInspectResults
    /\ stmtIdx' = stmtIdx + 1
    /\ apc' = "loop"
    /\ UNCHANGED <<Rules, isDDLStmt, isDMLStmt, alterTableStmts, ruleIdx, adviseErr>>

\* AdviseRecord without line 54: i.Results is kept for the next statement
AdviseRecordNoReset ==
    /\ apc = "rules"
    /\ ruleIdx > Len(Rules)
    /\ SqlArray' = [SqlArray EXCEPT ![stmtIdx] =
                      [@ EXCEPT !.InspectStatus = TASK_ACTION_DONE,
                                !.InspectLevel = Level(Results),
                                !.InspectResult = Message(Results)]]
    /\ schemaCtx' = updateSchemaCtx(schemaCtx, stmtIdx)
    /\ trace' = Append(trace, Event("ctx", stmtIdx, 0, Nil))
    /\ stmtIdx' = stmtIdx + 1
    /\ apc' = "loop"
    /\ UNCHANGED <<Rules, isDDLStmt, isDMLStmt, Results, alterTableStmts, ruleIdx, adviseErr>>

\* Advise, lines 46-54: the statement's result is recorded, the schema
\* context updated and the accumulator replaced
AdviseRecord ==
    /\ apc = "rules"
    /\ ruleIdx > Len(Rules)
    /\ SqlArray' = [SqlArray EXCEPT ![stmtIdx] =
                      [@ EXCEPT !.InspectStatus = TASK_ACTION_DONE,
                                !.InspectLevel = Level(Results),
                                !.InspectResult = Message(Results)]]
    /\ schemaCtx' = updateSchemaCtx(schemaCtx, stmtIdx)
    /\ trace' = Append(trace, Event("ctx", stmtIdx, 0, Nil))
    /\ Results' = NewInspectResults
    /\ stmtIdx' = stmtIdx + 1
    /\ apc' = "loop"
    /\ UNCHANGED <<Rules, isDDLStmt, isDMLStmt, alterTableStmts, ruleIdx, adviseErr>>

\* Advise, line 56: the batch is exhausted
AdviseReturn ==
    /\ apc = "loop"
    /\ stmtIdx > Len(SqlArray)
    /\ apc' = "returned"
    /\ adviseErr' = Nil
    /\ UNCHANGED <<SqlArray, Rules, isDDLStmt, isDMLStmt, Results, alterTableStmts,
                   schemaCtx, stmtIdx, ruleIdx, trace>>

-----------------------------------------------------------------------------
(* The specifications                                                      *)

\* the registry, called by concurrent goroutines
RegFrame == UNCHANGED <<arVars, advVars>>
Next ==
    \E g \in Procs :
        \/ CallRegister(g) /\ RegFrame
        \/ CallNewDriver(g) /\ RegFrame
        \/ CallAllRules(g) /\ RegFrame
        \/ CallAllDrivers(g) /\ RegFrame
        \/ RegisterCheck(g) /\ RegFrame
        \/ RegisterLockDrivers(g) /\ RegFrame
        \/ RegisterWrite(g) /\ RegFrame
        \/ RegisterUnlockDrivers(g) /\ RegFrame
        \/ RegisterLockRules(g) /\ RegFrame
        \/ RegisterAppend(g) /\ RegFrame
        \/ RegisterUnlockRules(g) /\ RegFrame
        \/ NewDriverRLock(g) /\ RegFrame
        \/ NewDriverLookup(g) /\ RegFrame
        \/ NewDriverRUnlock(g) /\ RegFrame
        \/ AllRulesRLock(g) /\ RegFrame
        \/ AllRulesRead(g) /\ RegFrame
        \/ AllRulesRUnlock(g) /\ RegFrame
        \/ AllDriversRLock(g) /\ RegFrame
        \/ AllDriversIter(g) /\ RegFrame
        \/ AllDriversRUnlock(g) /\ RegFrame
\* nothing registered, an empty AuditResult, an Inspector without a batch
Init == RegInit /\ ArInit /\ AdvIdle
Spec == Init /\ [][Next]_vars

\* a step of a call goroutine g is in
Step(g) ==
    \/ RegisterCheck(g) /\ RegFrame
    \/ RegisterLockDrivers(g) /\ RegFrame
    \/ RegisterWrite(g) /\ RegFrame
    \/ RegisterUnlockDrivers(g) /\ RegFrame
    \/ RegisterLockRules(g) /\ RegFrame
    \/ RegisterAppend(g) /\ RegFrame
    \/ RegisterUnlockRules(g) /\ RegFrame
    \/ NewDriverRLock(g) /\ RegFrame
    \/ NewDriverLookup(g) /\ RegFrame
    \/ NewDriverRUnlock(g) /\ RegFrame
    \/ AllRulesRLock(g) /\ RegFrame
    \/ AllRulesRead(g) /\ RegFrame
    \/ AllRulesRUnlock(g) /\ RegFrame
    \/ AllDriversRLock(g) /\ RegFrame
    \/ AllDriversIter(g) /\ RegFrame
    \/ AllDriversRUnlock(g) /\ RegFrame

\* the registry with the scheduler running every goroutine that can run: a
\* goroutine whose next statement stays executable executes it; a handler
\* called by NewDriver returns (NewDriverLookup is one step)
Fairness == \A g \in Procs : WF_vars(Step(g))
SpecLive == Init /\ [][Next]_vars /\ Fairness

\* one AuditResult
ArFrame == UNCHANGED <<regVars, advVars>>
NextAudit ==
    \/ CallAdd /\ ArFrame
    \/ CallLevel /\ ArFrame
    \/ CallMessage /\ ArFrame
SpecAudit == Init /\ [][NextAudit]_vars

\* one Inspector, one batch
AdvFrame == UNCHANGED <<regVars, arVars>>
NextAdvise ==
    \/ AdviseStatement /\ AdvFrame
    \/ AdviseRule /\ AdvFrame
    \/ AdviseRecord /\ AdvFrame
    \/ AdviseReturn /\ AdvFrame
InitAdvise == RegInit /\ ArInit /\ AdvInit
SpecAdvise == InitAdvise /\ [][NextAdvise]_vars

\* one Inspector, one batch of the statements of CheckStmts
InitChecks == RegInit /\ ArInit /\ AdvChecksInit
SpecChecks == InitChecks /\ [][NextAdvise]_vars

\* one Inspector, one batch of the statements of MergeStmts
InitMerge == RegInit /\ ArInit /\ AdvMergeInit
SpecMerge == InitMerge /\ [][NextAdvise]_vars

-----------------------------------------------------------------------------
(* Properties of Inspector.Advise, checked under SpecAdvise                *)

Min(S) == CHOOSE x \in S : \A y \in S : x <= y

\* the kind of statement k of the batch
KindOf(k) ==
    LET sql == SqlArray[k].Sql
    IN  IF ParseFails(sql) THEN "none"
        ELSE IF IsDDLNode(sql) THEN "ddl"
        ELSE IF IsDMLNode(sql) THEN "dml"
        ELSE "other"

\* the statements that are DDL or DML
Kinded == {k \in 1..Len(SqlArray) : KindOf(k) \in {"ddl", "dml"}}

\* the positions in trace of the check function calls and of the updates
Checks == {n \in 1..Len(trace) : trace[n].e = "check"}
CtxUpdates == {n \in 1..Len(trace) : trace[n].e = "ctx"}

\* C1: the first DDL or DML statement fixes the kind of the batch; at the first
\* later statement of the other kind Advise returns SQL_STMT_CONFLICT_ERROR, and
\* no check function runs on that statement or on any statement after it;
\* statements of neither kind neither fix the kind nor conflict with it.
C1_KindConflict ==
    LET kinded == Kinded
        first == Min(kinded)
        conflicting == {k \in kinded : KindOf(k) /= KindOf(first)}
        conflict == Min(conflicting)
    IN  /\ isDDLStmt => (kinded /= {} /\ KindOf(first) = "ddl")
        /\ isDMLStmt => (kinded /= {} /\ KindOf(first) = "dml")
        /\ conflicting /= {} =>
              /\ stmtIdx <= conflict
              /\ \A n \in Checks : trace[n].stmt < conflict
              /\ (stmtIdx = conflict /\ apc /= "loop") =>
                    (apc = "returned" /\ adviseErr = SQL_STMT_CONFLICT_ERROR)
        /\ adviseErr = SQL_STMT_CONFLICT_ERROR =>
              (conflicting /= {} /\ stmtIdx = conflict /\ apc = "returned")

\* C1's case: Advise returned the conflict error at a statement that follows
\* checked statements and that is not the last of the batch
C1_Witness ==
    /\ apc = "returned"
    /\ adviseErr = SQL_STMT_CONFLICT_ERROR
    /\ stmtIdx < Len(SqlArray)
    /\ Checks /= {}

\* C2: when Advise returns an error no statement of the batch carries an
\* inspection status, level or result; when it returns nil every statement does.
C2_AllOrNothing ==
    apc = "returned" =>
        IF adviseErr /= Nil
        THEN \A k \in 1..Len(SqlArray) :
                /\ SqlArray[k].InspectStatus = ""
                /\ SqlArray[k].InspectLevel = Empty
                /\ SqlArray[k].InspectResult = Empty
        ELSE \A k \in 1..Len(SqlArray) : SqlArray[k].InspectStatus = TASK_ACTION_DONE

\* C3: a check function's error is what Advise returns, and the failing call is
\* the last thing Advise does: no further rule runs for the statement, no rule
\* runs for a later statement.
C3_CheckErrorAborts ==
    /\ \A n \in Checks : trace[n].err /= Nil =>
          /\ n = Len(trace)
          /\ apc = "returned"
          /\ adviseErr = trace[n].err
          /\ stmtIdx = trace[n].stmt
    /\ (apc = "returned" /\ adviseErr \in LookupErrors) =>
          (trace /= <<>> /\ trace[Len(trace)].e = "check" /\ trace[Len(trace)].err = adviseErr)

\* C3's case: a check failed while a further rule and a further statement remained
C3_Witness ==
    /\ apc = "returned"
    /\ adviseErr \in LookupErrors
    /\ stmtIdx > 1
    /\ stmtIdx < Len(SqlArray)
    /\ ruleIdx < Len(Rules)
    /\ RulesFunc(Rules[Len(Rules)].Name) \notin {"absent", "nil"}

\* the rules of i.Rules that have a check function
Checked == {j \in 1..Len(Rules) : RulesFunc(Rules[j].Name) \notin {"absent", "nil"}}

\* C4: updateSchemaCtx for a statement is applied only after every selected check
\* of that statement returned without error, and before any check of the next
\* statement; it is never applied for a statement one of whose checks failed.
C4_CtxAfterChecks ==
    LET checks == Checks
        updates == CtxUpdates
        checked == Checked
        \* the position of the update for statement k, 0 if there is none
        updateOf == [k \in 1..Len(SqlArray) |->
                        IF \E n \in updates : trace[n].stmt = k
                        THEN CHOOSE n \in updates : trace[n].stmt = k ELSE 0]
    IN  /\ \A n \in updates :
              {trace[m].rule : m \in {c \in checks : c < n /\ trace[c].stmt = trace[n].stmt}} = checked
        /\ \A m \in checks :
              /\ updateOf[trace[m].stmt] /= 0 =>
                    (m < updateOf[trace[m].stmt] /\ trace[m].err = Nil)
              /\ \A k \in 1..(trace[m].stmt - 1) : updateOf[k] /= 0 /\ updateOf[k] < m
        /\ schemaCtx = [n \in 1..Cardinality(updates) |-> n]
        /\ Cardinality(updates) = stmtIdx - 1

\* C4's case: a statement's update was applied after its two checks and before
\* the next statement's check, and that next statement's check failed
C4_Witness ==
    /\ Cardinality(Checked) = 2
    /\ \E n \in CtxUpdates : \E m \in Checks : m > n /\ trace[m].stmt = trace[n].stmt + 1
    /\ trace[Len(trace)].err /= Nil
    /\ Len(schemaCtx) = 1

-----------------------------------------------------------------------------
(* Properties of the registry, checked under Spec                          *)

\* C5: NewDriver for a registered name returns what the bound handler returned,
\* driver or error, and never the "not supported" error; for a name that is not
\* registered it returns the "not supported" error and calls no handler.
C5_NewDriverLookup ==
    \A g \in Procs : pc[g] = "nd_runlock" =>
        IF args[g].name \in Registered
        THEN /\ ctorRet[g] \in HandlerResults(drivers[args[g].name])
             /\ ret[g] = ctorRet[g]
             /\ ret[g] /= NotSupported(args[g].name)
        ELSE /\ ret[g] = NotSupported(args[g].name)
             /\ ctorRet[g] = NoCall

\* C5's case: after two Register calls NewDriver returns a handler's own error
\* for one goroutine
C5_Witness ==
    \E g \in Procs :
        /\ pc[g] = "nd_runlock"
        /\ Registered = Names
        /\ ret[g] = [kind |-> "error", by |-> drivers[args[g].name]]

\* C6: a Register call that finds its name bound panics, whatever its handler,
\* and changes neither drivers nor rules (the existence check not overlapping
\* another goroutine's write of the map).
C6_DuplicatePanics ==
    [][\A g \in Procs :
         (/\ pc[g] = "reg_check"
          /\ pc'[g] /= "reg_check"
          /\ args[g].name \in Registered
          /\ ~RacesOnDrivers(g))
         => (pc'[g] = "panicked" /\ drivers' = drivers /\ rules' = rules)]_vars

\* C6's case: a name bound once, and a second Register with the same handler
\* panicked
C6_Witness ==
    \E g \in Procs :
        /\ pc[g] = "panicked"
        /\ regWrites[args[g].name] = 1
        /\ drivers[args[g].name] = args[g].h
        /\ rules /= <<>>

\* C7: under any interleaving of Register calls a name is bound at most once:
\* no handler is overwritten, no second registration of a name gets through.
C7_NamesUnique == \A n \in Names : regWrites[n] <= 1

\* g holds mu for reading / for writing
HoldsR(mu, g) == g \in mu.r \/ mu.w = g
HoldsW(mu, g) == mu.w = g

\* C8: every read and write of drivers is made holding driversMu, every read and
\* write of rules holding rulesMu, so no read of either overlaps a write of it.
C8_LockDiscipline ==
    /\ \A g \in Procs :
          /\ ReadsDrivers(g) => HoldsR(driversMu, g)
          /\ WritesDrivers(g) => HoldsW(driversMu, g)
          /\ ReadsRules(g) => HoldsR(rulesMu, g)
          /\ WritesRules(g) => HoldsW(rulesMu, g)
    /\ \A g, h \in Procs : g /= h => ~(ReadsDrivers(g) /\ WritesDrivers(h))
    /\ \A g, h \in Procs : g /= h => ~(ReadsRules(g) /\ WritesRules(h))

-----------------------------------------------------------------------------
(* Properties of AuditResult, checked under SpecAudit                      *)

\* the severity order Normal < Notice < Warn < Error
Severity(level) ==
    CHOOSE n \in 1..4 : <<RuleLevelNormal, RuleLevelNotice, RuleLevelWarn, RuleLevelError>>[n] = level

\* C9: Level() is Normal when no finding was accepted, else the highest severity
\* among the accepted findings; Add with an empty level or an empty message
\* accepts nothing and leaves the AuditResult as it was.
C9_LevelIsMax ==
    /\ arLevel /= Unset =>
          IF arResults = <<>> THEN arLevel = RuleLevelNormal
          ELSE /\ \E k \in 1..Len(arResults) : arResults[k].level = arLevel
               /\ \A k \in 1..Len(arResults) : Severity(arResults[k].level) <= Severity(arLevel)
    /\ arLastAdd.n > 0 =>
          IF arLastAdd.level = Empty \/ arLastAdd.message = Empty
          THEN arResults = arLastAdd.before
          ELSE /\ Len(arResults) = Len(arLastAdd.before) + 1
               /\ SubSeq(arResults, 1, Len(arLastAdd.before)) = arLastAdd.before
               /\ arResults[Len(arResults)].level = arLastAdd.level

\* C9's case: findings at Warn and then at Normal, and Level() returned Warn
C9_Witness ==
    /\ Len(arResults) = 2
    /\ arResults[1].level = RuleLevelWarn
    /\ arResults[2].level = RuleLevelNormal
    /\ arLevel = RuleLevelWarn

\* a message that begins with a bracketed known level tag or the osc tag
BeginsWithTag(message) ==
    \E t \in {RuleLevelError, RuleLevelWarn, RuleLevelNotice, RuleLevelNormal, Str_osc} :
        HasPrefix(message, <<"[">> \o t \o <<"]">>)

\* C10: Message() renders a finding's message unchanged only if it begins with
\* a bracketed known level tag or [osc]; every other message is rendered as
\* "[<level>]<message>".
C10_TagUnlessTagged ==
    arMessage /= Unset =>
        arMessage = JoinWith([k \in 1..Len(arResults) |->
                         IF BeginsWithTag(arResults[k].message) THEN arResults[k].message
                         ELSE <<"[">> \o arResults[k].level \o <<"]">> \o arResults[k].message],
                     <<"\n">>)

\* the levels a finding can carry
KnownLevels == {RuleLevelNormal, RuleLevelNotice, RuleLevelWarn, RuleLevelError}

\* a message of the form "[<known level tag>]..."
BeginsWithLevelTag(message) ==
    \E t \in KnownLevels : HasPrefix(message, <<"[">> \o t \o <<"]">>)

\* C11: Message() never double-tags. What it returned is its lines joined by
\* newlines; a finding whose message begins with a bracketed known level tag,
\* of any level, has that message as its line; and every line, made the
\* message of a finding of any level, is rendered as that same line.
C11_NoDoubleTag ==
    arMessage /= Unset =>
        LET lines == [k \in 1..Len(arResults) |-> MessageLine(arResults[k])]
        IN  /\ arMessage = JoinWith(lines, <<"\n">>)
            /\ \A k \in 1..Len(arResults) :
                  /\ BeginsWithLevelTag(arResults[k].message) =>
                         lines[k] = arResults[k].message
                  /\ \A l \in KnownLevels :
                         MessageLine([level |-> l, message |-> lines[k]]) = lines[k]

\* C11's case: Message() tagged a plain message with [error] and left a message
\* that carried [error] already as it was
C11_Witness ==
    /\ arMessage /= Unset
    /\ Len(arResults) = 2
    /\ arResults[1] = [level |-> RuleLevelError, message |-> <<"x">>]
    /\ arResults[2].level = RuleLevelWarn
    /\ arResults[2].message = <<"[">> \o Str_error \o <<"]", "x">>

-----------------------------------------------------------------------------
(* Further properties of the registry, checked under Spec                  *)

RECURSIVE ConcatRules(_)
\* the rule lists of the logged Register calls, one after the other
ConcatRules(log) ==
    IF log = <<>> THEN <<>> ELSE log[1].rs \o ConcatRules(Tail(log))

\* the Register calls logged were made in sequence: none bound its name while
\* another Register call was in progress
InSequence == \A n \in 1..Len(regLog) : regLog[n].alone

\* a Register call has bound its name and not yet appended its rules
AppendPending == \E g \in Procs : pc[g] \in {"reg_unlockD", "reg_lockR", "reg_append"}

\* C14: after Register calls made in sequence, the catalog is the concatenation
\* of the rule lists passed, in registration order, rules of the same name
\* contributed twice being kept twice; and AllRules returns the catalog.
C14_AllRulesConcat ==
    /\ InSequence =>
          rules = ConcatRules(IF AppendPending
                              THEN SubSeq(regLog, 1, Len(regLog) - 1) ELSE regLog)
    /\ \A g \in Procs : pc[g] = "ar_runlock" => ret[g] = [kind |-> "rules", list |-> rules]

\* C14's case: two plugins registered one after the other, both bringing the
\* rule r1, and AllRules returned the three rules
C14_Witness ==
    \E g \in Procs :
        /\ pc[g] = "ar_runlock"
        /\ InSequence
        /\ Len(regLog) = 2
        /\ ret[g].list = <<"r1", "r2", "r1">>

\* C15: the error NewDriver returns for a type that is not registered is a
\* value of the type ErrDriverNotSupported that carries the unknown type name.
C15_TypedNotSupported ==
    \A g \in Procs :
        (pc[g] = "nd_runlock" /\ ctorRet[g] = NoCall) =>
            ret[g] = ErrDriverNotSupported(args[g].name)

\* C20: in every state in which a name is bound in drivers and driversMu is
\* not held for writing, so that AllDrivers lists the name and NewDriver
\* resolves it, the rules passed with it are in the catalog AllRules returns.
C20_RegistrationAtomic ==
    \A n \in Registered : \A p \in Plugins :
        (driversMu.w = 0 /\ p.h = drivers[n]) =>
            \A k \in 1..Len(p.rs) : \E m \in 1..Len(rules) : rules[m] = p.rs[k]

-----------------------------------------------------------------------------
(* Properties of the rule loop and of the check functions, under SpecChecks *)

RECURSIVE AddedUpTo(_, _)
\* the findings the check function calls on statement k appended, in the order
\* of the calls, among the first n events
AddedUpTo(k, n) ==
    IF n = 0 THEN <<>>
    ELSE AddedUpTo(k, n - 1)
         \o (IF trace[n].e = "check" /\ trace[n].stmt = k THEN trace[n].added ELSE <<>>)

\* the findings of statement k
AddedOn(k) == AddedUpTo(k, Len(trace))

\* the rules of i.Rules the loop has passed for statement k
RulesPassed(k) ==
    IF k < stmtIdx THEN 1..Len(Rules)
    ELSE IF k = stmtIdx /\ apc = "rules" THEN 1..(ruleIdx - 1)
    ELSE {}

\* C12: for each statement the check functions run in the order of i.Rules,
\* each selected rule that has a function exactly once; the findings are in
\* i.Results in that order, each with the level of the rule that produced it,
\* whatever the severities; a rule without a function, or with a nil one, runs
\* nothing, adds nothing and raises no error.
C12_RulesInOrder ==
    LET checks == Checks
        checked == Checked
    IN  /\ \A m1, m2 \in checks :
              (m1 < m2 /\ trace[m1].stmt = trace[m2].stmt) => trace[m1].rule < trace[m2].rule
        /\ \A k \in 1..Len(SqlArray) :
              {trace[m].rule : m \in {c \in checks : trace[c].stmt = k}}
                  = checked \cap RulesPassed(k)
        /\ \A m \in checks : \A n \in 1..Len(trace[m].added) :
              trace[m].added[n].level = Rules[trace[m].rule].Level
        /\ apc = "rules" => Results = AddedOn(stmtIdx)
        /\ adviseErr = Nil

\* C12's case: a Notice rule, a rule with a nil function and an Error rule were
\* passed in that order, and the findings are the Notice one, then the Error one
C12_Witness ==
    /\ apc = "rules"
    /\ Len(Rules) = 3
    /\ ruleIdx > Len(Rules)
    /\ RulesFunc(Rules[2].Name) = "nil"
    /\ Len(Results) = 2
    /\ Results[1].level = RuleLevelNotice
    /\ Results[2].level = RuleLevelError

\* C13: the level and the message recorded on a statement are those of the
\* findings the check functions added while run on that statement, and of no
\* other; i.Results is empty when the rule loop of a statement begins and holds
\* only that statement's findings while the loop runs.
C13_OwnFindingsOnly ==
    /\ \A k \in 1..Len(SqlArray) :
          k < stmtIdx =>
              /\ SqlArray[k].InspectStatus = TASK_ACTION_DONE
              /\ SqlArray[k].InspectLevel = Level(AddedOn(k))
              /\ SqlArray[k].InspectResult = Message(AddedOn(k))
    /\ apc = "loop" => Results = NewInspectResults
    /\ (apc = "rules" /\ ruleIdx = 1) => Results = NewInspectResults
    /\ apc = "rules" => Results = AddedOn(stmtIdx)

\* C13's case: the first statement was recorded with a Warn finding, the
\* second, whose checks added nothing, with level Normal and an empty message
C13_Witness ==
    /\ stmtIdx > 2
    /\ AddedOn(1) /= <<>>
    /\ SqlArray[1].InspectLevel = RuleLevelWarn
    /\ \E m \in Checks : trace[m].stmt = 2
    /\ AddedOn(2) = <<>>
    /\ SqlArray[2].InspectLevel = RuleLevelNormal
    /\ SqlArray[2].InspectResult = Empty

\* the statement and the check function of the call logged at position m
StmtOf(m) == SqlArray[trace[m].stmt].Sql
FnOf(m) == RulesFunc(Rules[trace[m].rule].Name)

\* how many of the findings carry the message of the code
Count(findings, code) ==
    Cardinality({n \in 1..Len(findings) : findings[n].message = RuleMessage(code)})

\* the calls of checkPrimaryKey on a CREATE TABLE
PkChecks == {m \in Checks : FnOf(m) = "checkPrimaryKey" /\ StmtOf(m).typ = "CreateTable"}

\* the columns declared PRIMARY KEY and the PRIMARY KEY constraints of a table
PkColumns(node) == {c \in 1..Len(node.cols) : "PrimaryKey" \in node.cols[c].options}
PkConstraints(node) ==
    {n \in 1..Len(node.constraints) : node.constraints[n].tp = "ConstraintPrimaryKey"}
DeclaresNoPk(node) == PkColumns(node) = {} /\ PkConstraints(node) = {}

\* the one primary-key column of the table, declared in the column or by a
\* constraint on that column alone, is of the type tp, UNSIGNED, AUTO_INCREMENT
SinglePkOfType(node, tp) ==
    LET keyCols == PkColumns(node)
                   \cup {c \in 1..Len(node.cols) :
                            \E n \in PkConstraints(node) :
                                node.constraints[n].keys = <<node.cols[c].name>>}
    IN  /\ Cardinality(PkColumns(node)) + Cardinality(PkConstraints(node)) = 1
        /\ Cardinality(keyCols) = 1
        /\ \A c \in keyCols :
              /\ node.cols[c].tp = tp
              /\ node.cols[c].unsigned
              /\ "AutoIncrement" \in node.cols[c].options

PkTables ==
    { Node("CreateTable", "t1", cols, constraints, <<>>, "") :
        cols \in UNION { [1..n -> {IdInt10Pk, IdInt, IdBigAuto, SelectBigPk}] : n \in 1..2 },
        constraints \in { <<>>,
                          <<Constraint("ConstraintPrimaryKey", "", <<"id">>)>>,
                          <<Constraint("ConstraintPrimaryKey", "", <<"id", "select">>)>> } }

\* C17 as claimed: there is a CREATE TABLE statement on which one run of the
\* primary-key check, started from the accumulator as it is, adds both the
\* missing-primary-key finding and the wrong-primary-key-type finding.
C17_BothCanFire ==
    \E node \in PkTables \cup {n \in CheckStmts : n.typ = "CreateTable"} :
    \E rule \in CheckRulePool :
    \E out \in checkPrimaryKey(node, rule, Results, alterTableStmts) :
        LET added == Drop(out.results, Len(Results))
        IN  /\ Count(added, "DDL_CHECK_PRIMARY_KEY_EXIST") > 0
            /\ Count(added, "DDL_CHECK_PRIMARY_KEY_TYPE") > 0

\* C17 as amended: the two findings exclude each other. A run of the
\* primary-key check on a CREATE TABLE adds the missing-primary-key finding,
\* once, iff the statement declares no primary key, adds the wrong-type finding
\* at most once and only if the statement declares one, and never adds both.
C17_PkFindingsExclusive ==
    \A m \in PkChecks :
        LET missing == Count(trace[m].added, "DDL_CHECK_PRIMARY_KEY_EXIST")
            wrong == Count(trace[m].added, "DDL_CHECK_PRIMARY_KEY_TYPE")
        IN  /\ missing = (IF DeclaresNoPk(StmtOf(m)) THEN 1 ELSE 0)
            /\ wrong <= 1
            /\ wrong = 1 => ~DeclaresNoPk(StmtOf(m))
            /\ missing + wrong <= 1
            /\ Len(trace[m].added) = missing + wrong

\* C17's case: in one batch the check added the wrong-type finding alone on a
\* table with a primary key and the missing finding alone on a table without
C17_Witness ==
    \E m1, m2 \in PkChecks :
        /\ m1 /= m2
        /\ Rules[trace[m1].rule] = Rules[trace[m2].rule]
        /\ Count(trace[m1].added, "DDL_CHECK_PRIMARY_KEY_TYPE") = 1
        /\ Count(trace[m1].added, "DDL_CHECK_PRIMARY_KEY_EXIST") = 0
        /\ Count(trace[m2].added, "DDL_CHECK_PRIMARY_KEY_EXIST") = 1
        /\ Count(trace[m2].added, "DDL_CHECK_PRIMARY_KEY_TYPE") = 0

\* the calls of checkNewObjectName
NameChecks == {m \in Checks : FnOf(m) = "checkNewObjectName"}

\* the object names a statement introduces: the new database; the new table,
\* its columns and its named indexes; the table, columns, constraints and
\* indexes an ALTER TABLE adds or renames to; the new index
Introduced(node) ==
    CASE node.typ = "CreateDatabase" -> {node.table}
      [] node.typ = "CreateTable" ->
            {node.table}
            \cup {node.cols[c].name : c \in 1..Len(node.cols)}
            \cup {node.constraints[n].name :
                     n \in {x \in 1..Len(node.constraints) :
                               node.constraints[x].tp \notin {"ConstraintPrimaryKey",
                                                              "ConstraintForeignKey"}}}
      [] node.typ = "AlterTable" ->
            UNION { LET spec == node.specs[n]
                    IN  ({spec.newTable, spec.constraintName, spec.toKey} \ {""})
                        \cup {spec.newColumns[c] : c \in 1..Len(spec.newColumns)}
                    : n \in 1..Len(node.specs) }
      [] node.typ = "CreateIndex" -> {node.indexName}
      [] OTHER -> {}

RECURSIVE SumLen(_)
\* the characters of the names of S, all together
SumLen(S) ==
    IF S = {} THEN 0
    ELSE LET n == CHOOSE x \in S : TRUE IN Len(IdentChars(n)) + SumLen(S \ {n})

\* the findings that list reserved keywords
KeywordFindings(findings) ==
    {n \in 1..Len(findings) : HasPrefix(findings[n].message, <<"k", "w", " ">>)}

DropChecks == {m \in Checks : FnOf(m) = "disableDropStmt"}

\* C19: run on a DROP TABLE or a DROP DATABASE, the disable-drop rule adds
\* exactly one finding, the disable-drop one at the rule's level, whatever was
\* audited before it in the batch; run on any other statement it adds nothing.
C19_DropAlwaysFlagged ==
    \A m \in DropChecks :
        IF StmtOf(m).typ \in {"DropTable", "DropDatabase"}
        THEN trace[m].added = << [level |-> Rules[trace[m].rule].Level,
                                  message |-> RuleMessage("DDL_DISABLE_DROP_STATEMENT")] >>
        ELSE trace[m].added = <<>>

\* C19's case: a DROP DATABASE that follows a DROP TABLE in the batch, each
\* flagged once, the rule not being the first of i.Rules
C19_Witness ==
    \E m1, m2 \in DropChecks :
        /\ trace[m1].stmt = 1
        /\ trace[m2].stmt = 2
        /\ StmtOf(m1).typ = "DropTable"
        /\ StmtOf(m2).typ = "DropDatabase"
        /\ Len(trace[m1].added) = 1
        /\ Len(trace[m2].added) = 1
        /\ trace[m2].rule > 1

-----------------------------------------------------------------------------
(* The merge-alter-table rule, under SpecMerge                             *)

\* the calls of checkMergeAlterTable
MergeChecks == {m \in Checks : FnOf(m) = "checkMergeAlterTable"}

\* i.Rules lists the merge-alter-table rule exactly once
MergeSelectedOnce ==
    Cardinality({j \in 1..Len(Rules) : RulesFunc(Rules[j].Name) = "checkMergeAlterTable"}) = 1

\* statement k is an ALTER TABLE
IsAlter(k) == SqlArray[k].Sql.typ = "AlterTable"

\* the ALTER TABLE statements on the table of statement k, up to k
AltersUpTo(k) ==
    {n \in 1..k : IsAlter(n) /\ SqlArray[n].Sql.table = SqlArray[k].Sql.table}

\* statement k is the second or a later ALTER TABLE on its table
LaterAlter(k) == IsAlter(k) /\ Cardinality(AltersUpTo(k)) >= 2

\* the need-merge finding of the rule at position j of i.Rules
NeedMerge(j) ==
    [level |-> Rules[j].Level, message |-> RuleMessage("DDL_CHECK_ALTER_TABLE_NEED_MERGE")]

\* C21: with the merge-alter-table rule listed once in i.Rules, its check adds
\* the need-merge finding, once, on a statement iff that statement is the
\* second or a later ALTER TABLE on its table in the batch, whatever ALTER
\* TABLEs on other tables come in between; a recorded statement carries the
\* finding in its result under the same condition; and i.alterTableStmts holds,
\* for each table, the ALTER TABLEs on it that the check has seen, in order.
C21_MergeFromSecond ==
    MergeSelectedOnce =>
        /\ \A m \in MergeChecks :
              trace[m].added = IF LaterAlter(trace[m].stmt)
                               THEN <<NeedMerge(trace[m].rule)>> ELSE <<>>
        /\ \A k \in 1..Len(SqlArray) :
              k < stmtIdx =>
                  /\ Count(AddedOn(k), "DDL_CHECK_ALTER_TABLE_NEED_MERGE")
                         = IF LaterAlter(k) THEN 1 ELSE 0
                  /\ Contains(SqlArray[k].InspectResult,
                              RuleMessage("DDL_CHECK_ALTER_TABLE_NEED_MERGE"))
                         <=> LaterAlter(k)
        /\ \A t \in Tables : \A n \in 1..Len(alterTableStmts[t]) :
              LET k == alterTableStmts[t][n]
              IN  /\ IsAlter(k)
                  /\ SqlArray[k].Sql.table = t
                  /\ Cardinality(AltersUpTo(k)) = n

\* C21's case: ALTER TABLE t1, ALTER TABLE t2, ALTER TABLE t1 were audited with
\* the rule listed once; only the third statement carries the finding
C21_Witness ==
    /\ MergeSelectedOnce
    /\ stmtIdx = 4
    /\ \A k \in 1..3 : IsAlter(k)
    /\ SqlArray[1].Sql.table = "t1"
    /\ SqlArray[2].Sql.table = "t2"
    /\ SqlArray[3].Sql.table = "t1"
    /\ AddedOn(1) = <<>>
    /\ AddedOn(2) = <<>>
    /\ Count(AddedOn(3), "DDL_CHECK_ALTER_TABLE_NEED_MERGE") = 1
    /\ alterTableStmts = [t \in Tables |-> IF t = "t1" THEN <<1, 3>> ELSE <<2>>]

-----------------------------------------------------------------------------
(* Locks and progress of the registry, under SpecLive                      *)

\* g is in no call: it has not called, has returned, or has panicked
Returned(g) == pc[g] \in {Idle, "panicked"}

\* no goroutine holds driversMu and rulesMu at once
NeverBothLocks ==
    \A g \in Procs : ~(HoldsR(driversMu, g) /\ HoldsR(rulesMu, g))

\* a goroutine that is in no call holds neither lock
ReleasedOnExit ==
    \A g \in Procs : Returned(g) => (~HoldsR(driversMu, g) /\ ~HoldsR(rulesMu, g))

\* every call in progress returns or panics, unless the runtime has thrown
ReturnsUnlessThrown ==
    \A g \in Procs : ~Returned(g) ~> (Returned(g) \/ crashed)

\* C22: no goroutine ever holds driversMu and rulesMu at once, a goroutine
\* that has left its call (by return or by panic) holds neither lock, and
\* every call in progress eventually returns or panics.
C22_LocksAndProgress ==
    /\ []NeverBothLocks
    /\ []ReleasedOnExit
    /\ \A g \in Procs : ~Returned(g) ~> Returned(g)

=============================================================================
